---- MODULE Spec2Model ----
(***************************************************************************)
(* Slidescape tile engine: the worker pool loop (platform/linux_main.cpp), *)
(* the tile decode job load_tile_func and its completion callback          *)
(* (core/viewer_io_file.cpp), the synchronous drain loop of thread 0, and  *)
(* the work queue they share.  The work queue implementation, the ASSERT   *)
(* macro, the tile request and the completion poll are not part of the     *)
(* analysed sources; they are modelled from the specification text.        *)
(***************************************************************************)
EXTENDS Integers, Sequences, FiniteSets, TLC

\* ---------------------------------------------------------------- bounds
NWorkers == 2             \* worker threads 1..NWorkers; thread 0 is main
MaxJobs == 3              \* submissions to the work queue, startup job included
WorkQueueCapacity == 2    \* entry_count of global_work_queue (scaled)
CompletionCapacity == 1   \* entry_count of global_completion_queue (scaled)
MaxNativeLevels == 4      \* native levels an opened slide reports, at most
MaxFactor == 6            \* largest downsample factor a native level reports
MaxDim == 3               \* largest level-0 width and height, in pixels
WSI_MAX_LEVELS == 3       \* size of the level arrays (scaled)
WSI_TILE_DIM == 2         \* tile width and height in pixels (scaled)
MaxTileLevel == 1         \* highest logical level a followed tile is decoded at
NTiles == 2               \* tiles of the cache that are followed
MaxTileBuffers == 3       \* buffers handed to the cache, at most
MaxReleases == 2          \* calls of tile_release_cache per tile, at most

Threads == 0 .. NWorkers
Workers == 1 .. NWorkers
JobIds == 1 .. MaxJobs
NULL == 0

\* image->backend values dispatched on by load_tile_func
Backends == {"TIFF", "OPENSLIDE", "DICOM", "ISYNTAX", "STBI", "NONE"}

\* image->level_images[l].exists of the opened image: level 0 is backed by a
\* native level, level 1 is a placeholder
level_exists == [l \in 0 .. 1 |-> l = 0]
Levels == DOMAIN level_exists

VARIABLES
    procState,                          \* "running", "aborted" (ASSERT), "exited" (main returned)
    global_active_worker_thread_count,
    global_work_queue,                  \* decode queue
    global_completion_queue,            \* completion queue
    is_openslide_loading_done,
    is_openslide_available,             \* result of init_openslide(), FALSE until the startup job ran
    pc,                                 \* position of every thread
    cur,                                \* entry a thread is executing
    live,                               \* heap: pixel buffers allocated and not freed, named by the job that allocated them
    submitted,                          \* number of add_work_queue_entry calls on the decode queue
    verdict,                            \* history: result of every submission
    execCount,                          \* history: times an entry was taken
    outcome,                            \* history: how the job on a thread left the backend dispatch
    notified,                           \* history: message the job on a thread gave the callback
    osr,                                \* image open: what the OpenSlide handle reports
    wsi,                                \* image open: the wsi_t filled by load_wsi
    image,                              \* image open: the image_t built by load_image_from_file
    openPc,                             \* image open: position in load_image_from_file
    tile_task,                          \* tile decode: the load_tile_task_t and the geometry it reads
    temp_memory,                        \* tile decode: the bytes of the pixel buffer
    tilePc,                             \* tile decode: position in load_tile_func
    tiles,                              \* tile cache: the tile_t of every tile followed
    tile_heap,                          \* tile cache: buffers held by tiles and not freed
    tile_allocs,                        \* tile cache: buffers handed to the cache so far
    tile_frees,                         \* tile cache, history: free() calls per buffer
    tile_releases,                      \* tile cache, history: tile_release_cache calls per tile
    region_task,                        \* region read: the task, the geometry it reads and the origin computed
    regionPc                            \* region read: position in the OpenSlide branch of load_tile_func

vars == <<procState, global_active_worker_thread_count, global_work_queue,
          global_completion_queue, is_openslide_loading_done, is_openslide_available, pc, cur, live,
          submitted, verdict, execCount, outcome, notified,
          osr, wsi, image, openPc, tile_task, temp_memory, tilePc,
          tiles, tile_heap, tile_allocs, tile_frees, tile_releases,
          region_task, regionPc>>

\* the worker pool and its queues
engineVars == <<procState, global_active_worker_thread_count, global_work_queue,
                global_completion_queue, is_openslide_loading_done, is_openslide_available, pc, cur, live,
                submitted, verdict, execCount, outcome, notified>>

\* one image open, one tile decode and the tiles of the cache, followed
\* through their computations
openVars == <<osr, wsi, image, openPc>>
tileVars == <<tile_task, temp_memory, tilePc>>
cacheVars == <<tiles, tile_heap, tile_allocs, tile_frees, tile_releases>>
regionVars == <<region_task, regionPc>>
pureVars == <<openVars, tileVars, cacheVars, regionVars>>

histVars == <<verdict, execCount, outcome, notified>>

\* ------------------------------------------------------------ work queue
EmptyQueue == [entries |-> <<>>, semaphore |-> 0, completion_goal |-> 0, completion_count |-> 0]

\* an entry: the submission it came from, its callback and its userdata
LoadOpenslideTask(j) == [id |-> j, callback |-> "load_openslide_task", level |-> 0]
LoadTileTask(j, l) == [id |-> j, callback |-> "load_tile_func", level |-> l]
NoEntry == [id |-> 0, callback |-> "none", level |-> 0]

\* mutant: the queue never reports that it is full
QueueIsFull_Never(queue, capacity) == FALSE

\* enqueue on a full queue reports capacity_exceeded
QueueIsFull(queue, capacity) == queue.completion_goal - queue.completion_count >= capacity

add_work_queue_entry(queue, capacity, entry) ==
    IF QueueIsFull(queue, capacity)
    THEN queue
    ELSE [queue EXCEPT !.entries = Append(@, entry),
                       !.semaphore = @ + 1,
                       !.completion_goal = @ + 1]

\* mutant: work counts as in progress only while it waits to start
is_queue_work_in_progress_Waiting(queue) == Len(queue.entries) > 0

is_queue_work_in_progress(queue) == queue.completion_goal > queue.completion_count

is_queue_work_waiting_to_start(queue) == Len(queue.entries) > 0

\* try_dequeue: the entry handed out (not valid when the queue is empty)
get_next_work_queue_entry(queue) ==
    IF Len(queue.entries) > 0 THEN Head(queue.entries) ELSE NoEntry

\* mutant: the next-to-execute cursor is not advanced
advance_next_entry_to_execute_Stuck(queue) == queue

\* the next-to-execute cursor moves past the entry handed out
advance_next_entry_to_execute(queue) == [queue EXCEPT !.entries = Tail(@)]

mark_queue_entry_completed(queue) == [queue EXCEPT !.completion_count = @ + 1]

\* ------------------------------------------------------------------ init
\* linux_init_multithreading, then main submits the startup job
\* load_openslide_task (load_dicom_task, submitted next to it, is a job of the
\* same shape and is not modelled separately)
EngineInit ==
    /\ procState = "running"
    /\ global_active_worker_thread_count = NWorkers
    /\ global_work_queue =
           add_work_queue_entry(EmptyQueue, WorkQueueCapacity, LoadOpenslideTask(1))
    /\ global_completion_queue = EmptyQueue
    /\ is_openslide_loading_done = FALSE
    /\ is_openslide_available = FALSE
    /\ pc = [t \in Threads |-> IF t = 0 THEN "idle" ELSE "check_enabled"]
    /\ cur = [t \in Threads |-> NoEntry]
    /\ live = {}
    /\ submitted = 1
    /\ verdict = [j \in JobIds |-> IF j = 1 THEN "accepted" ELSE "none"]
    /\ execCount = [j \in JobIds |-> 0]
    /\ outcome = [t \in Threads |-> "none"]
    /\ notified = [t \in Threads |-> "none"]

\* no image is being opened, no tile is followed through its decode and no
\* tile of the cache is followed
NoOpen ==
    /\ osr = <<>>
    /\ wsi = <<>>
    /\ image = <<>>
    /\ openPc = "none"

NoTile ==
    /\ tile_task = <<>>
    /\ temp_memory = <<>>
    /\ tilePc = "none"

NoCache ==
    /\ tiles = <<>>
    /\ tile_heap = {}
    /\ tile_allocs = 0
    /\ tile_frees = <<>>
    /\ tile_releases = <<>>

NoRegion ==
    /\ region_task = <<>>
    /\ regionPc = "none"

Init == EngineInit /\ NoOpen /\ NoTile /\ NoCache /\ NoRegion

Running == procState = "running"

\* ASSERT(expr): an invariant violation terminates the process
AssertFails(expr) == ~expr

\* ----------------------------------------------------------- worker loop
LoopHead(t) == IF t = 0 THEN "drain_check" ELSE "check_enabled"

\* mutant: a worker that is disabled while it runs a job drops the job and
\* goes back to the head of its loop
WorkerCheckEnabled_Preempt(w) ==
    /\ Running
    /\ \/ /\ pc[w] = "check_enabled"
          /\ pc' = [pc EXCEPT ![w] = IF w > global_active_worker_thread_count
                                     THEN "check_enabled" ELSE "check_waiting"]
          /\ cur' = cur
       \/ /\ cur[w] # NoEntry
          /\ w > global_active_worker_thread_count
          /\ pc' = [pc EXCEPT ![w] = "check_enabled"]
          /\ cur' = [cur EXCEPT ![w] = NoEntry]
    /\ UNCHANGED pureVars
    /\ UNCHANGED <<procState, global_active_worker_thread_count, global_work_queue,
                   global_completion_queue, is_openslide_loading_done, is_openslide_available,
                   live, submitted, histVars>>

\* if (logical_thread_index > global_active_worker_thread_count) { sleep; continue; }
WorkerCheckEnabled(w) ==
    /\ Running
    /\ pc[w] = "check_enabled"
    /\ pc' = [pc EXCEPT ![w] = IF w > global_active_worker_thread_count
                               THEN "check_enabled" ELSE "check_waiting"]
    /\ UNCHANGED pureVars
    /\ UNCHANGED <<procState, global_active_worker_thread_count, global_work_queue,
                   global_completion_queue, is_openslide_loading_done, is_openslide_available, cur,
                   live, submitted, histVars>>

\* if (!is_queue_work_waiting_to_start(queue)) sem_wait(...)
WorkerCheckWaiting(w) ==
    /\ Running
    /\ pc[w] = "check_waiting"
    /\ pc' = [pc EXCEPT ![w] = IF is_queue_work_waiting_to_start(global_work_queue)
                               THEN "do_work" ELSE "sem_wait"]
    /\ UNCHANGED pureVars
    /\ UNCHANGED <<procState, global_active_worker_thread_count, global_work_queue,
                   global_completion_queue, is_openslide_loading_done, is_openslide_available, cur,
                   live, submitted, histVars>>

\* sem_wait(queue->semaphore) returns and the enablement is checked again
WorkerSemWait(w) ==
    /\ Running
    /\ pc[w] = "sem_wait"
    /\ global_work_queue.semaphore > 0
    /\ global_work_queue' = [global_work_queue EXCEPT !.semaphore = @ - 1]
    /\ pc' = [pc EXCEPT ![w] = IF w > global_active_worker_thread_count
                               THEN "check_enabled" ELSE "do_work"]
    /\ UNCHANGED pureVars
    /\ UNCHANGED <<procState, global_active_worker_thread_count,
                   global_completion_queue, is_openslide_loading_done, is_openslide_available, cur,
                   live, submitted, histVars>>

\* do_worker_work, first half: take the next entry, if there is one
DoWorkerWork(t) ==
    /\ Running
    /\ pc[t] = "do_work"
    /\ LET entry == get_next_work_queue_entry(global_work_queue) IN
       IF entry = NoEntry
       THEN /\ pc' = [pc EXCEPT ![t] = LoopHead(t)]
            /\ UNCHANGED <<global_work_queue, cur, execCount>>
       ELSE /\ global_work_queue' = advance_next_entry_to_execute(global_work_queue)
            /\ cur' = [cur EXCEPT ![t] = entry]
            /\ execCount' = [execCount EXCEPT ![entry.id] = @ + 1]
            /\ pc' = [pc EXCEPT ![t] = entry.callback]
    /\ UNCHANGED pureVars
    /\ UNCHANGED <<procState, global_active_worker_thread_count,
                   global_completion_queue, is_openslide_loading_done, is_openslide_available,
                   live, submitted, verdict, outcome, notified>>

\* do_worker_work, second half: the callback returned
MarkCompleted(t) ==
    /\ Running
    /\ pc[t] = "retire"
    /\ global_work_queue' = mark_queue_entry_completed(global_work_queue)
    /\ cur' = [cur EXCEPT ![t] = NoEntry]
    /\ outcome' = [outcome EXCEPT ![t] = "none"]
    /\ notified' = [notified EXCEPT ![t] = "none"]
    /\ pc' = [pc EXCEPT ![t] = LoopHead(t)]
    /\ UNCHANGED pureVars
    /\ UNCHANGED <<procState, global_active_worker_thread_count,
                   global_completion_queue, is_openslide_loading_done, is_openslide_available,
                   live, submitted, verdict, execCount>>

load_openslide_task(t) ==
    /\ Running
    /\ pc[t] = "load_openslide_task"
    /\ \E available \in BOOLEAN : is_openslide_available' = available
    /\ is_openslide_loading_done' = TRUE
    /\ pc' = [pc EXCEPT ![t] = "retire"]
    /\ UNCHANGED pureVars
    /\ UNCHANGED <<procState, global_active_worker_thread_count, global_work_queue,
                   global_completion_queue, cur, live, submitted, histVars>>

\* ------------------------------------------------------- load_tile_func
\* mutant: the existence of the level is not checked
LevelExistsCheck_Skipped(level) == TRUE

\* the condition of ASSERT(level_image->exists)
LevelExistsCheck(level) == level_exists[level]

\* malloc() and free(): the heap afterwards
Malloc(heap, b) == heap \cup {b}
Free(heap, b) == heap \ {b}

\* Lines 52-121 of load_tile_func for job `j` on heap `heap` with backend
\* `be`; `ok` is the backend decoder's outcome (pixels != NULL).  The result
\* gives the heap, temp_memory and failed at line 122 and whether an ASSERT
\* fired.  The TIFF and DICOM decoders return a buffer of their own, which
\* replaces the one allocated at line 54.
load_tile_decode(heap, j, be, ok) ==
    LET h1 == Malloc(heap, j)
    IN  CASE be \in {"TIFF", "DICOM"} ->
               IF ok
               THEN [abort |-> FALSE, failed |-> FALSE, temp_memory |-> j,
                     live |-> Malloc(Free(h1, j), j)]
               ELSE [abort |-> FALSE, failed |-> TRUE, temp_memory |-> NULL,
                     live |-> Free(h1, j)]
          [] be = "OPENSLIDE" ->
               [abort |-> FALSE, failed |-> FALSE, temp_memory |-> j, live |-> h1]
          [] be \in {"ISYNTAX", "STBI"} ->
               [abort |-> AssertFails(FALSE), failed |-> FALSE, temp_memory |-> j,
                live |-> h1]
          [] OTHER ->
               [abort |-> FALSE, failed |-> TRUE, temp_memory |-> NULL,
                live |-> Free(h1, j)]

\* the completion message built at lines 140-147
CompletionTask(pixel_memory, level) == [pixel_memory |-> pixel_memory, scale |-> level]

\* the callback: the message is submitted to the completion queue and the
\* result of the submission is not looked at
viewer_notify_load_tile_completed(queue, msg) ==
    add_work_queue_entry(queue, CompletionCapacity, msg)

\* mutant: the callback is skipped for a failed decode
CallsCompletionCallback_OnSuccess(decodeFailed) == ~decodeFailed

\* whether load_tile_func invokes task->completion_callback (lines 150-153)
CallsCompletionCallback(decodeFailed) == TRUE

\* load_tile_func, from its first line to its return; `be` is the backend
\* of task->image and `ok` the outcome of the backend decoder
load_tile_func(t) ==
    /\ Running
    /\ pc[t] = "load_tile_func"
    /\ LET level == cur[t].level
       IN  IF AssertFails(LevelExistsCheck(level))
           THEN /\ procState' = "aborted"
                /\ outcome' = [outcome EXCEPT ![t] = "placeholder_assert"]
                /\ UNCHANGED <<pc, live, global_completion_queue, notified>>
           ELSE \E be \in Backends, ok \in BOOLEAN :
                  LET r == load_tile_decode(live, cur[t].id, be, ok)
                      msg == CompletionTask(r.temp_memory, level)
                  IN
                  /\ live' = r.live
                  /\ outcome' = [outcome EXCEPT ![t] =
                                    IF r.abort THEN "invalid_code_path"
                                    ELSE IF r.failed THEN "failed" ELSE "decoded"]
                  /\ IF r.abort
                     THEN /\ procState' = "aborted"
                          /\ UNCHANGED <<pc, global_completion_queue, notified>>
                     ELSE /\ procState' = procState
                          /\ pc' = [pc EXCEPT ![t] = "retire"]
                          /\ IF CallsCompletionCallback(r.failed)
                             THEN /\ global_completion_queue' =
                                        viewer_notify_load_tile_completed(global_completion_queue, msg)
                                  /\ notified' = [notified EXCEPT ![t] =
                                        IF msg.pixel_memory = NULL THEN "null" ELSE "buffer"]
                             ELSE UNCHANGED <<global_completion_queue, notified>>
    /\ UNCHANGED pureVars
    /\ UNCHANGED <<global_active_worker_thread_count, global_work_queue,
                   is_openslide_loading_done, is_openslide_available, cur, submitted, verdict, execCount>>

\* ------------------------------------------------------------ thread 0
\* accepted jobs that are not retired: waiting in the queue or on a thread
Waiting == {global_work_queue.entries[i].id : i \in 1 .. Len(global_work_queue.entries)}
Executing == {cur[t].id : t \in {u \in Threads : cur[u] # NoEntry}}
Unretired == Waiting \cup Executing

\* request_tile: a decode job is submitted to the decode queue
RequestTile(level) ==
    /\ Running
    /\ pc[0] = "idle"
    /\ submitted < MaxJobs
    /\ LET j == submitted + 1 IN
       /\ submitted' = j
       /\ global_work_queue' =
              add_work_queue_entry(global_work_queue, WorkQueueCapacity, LoadTileTask(j, level))
       /\ verdict' = [verdict EXCEPT ![j] =
                         IF global_work_queue' = global_work_queue
                         THEN "rejected" ELSE "accepted"]
    /\ UNCHANGED pureVars
    /\ UNCHANGED <<procState, global_active_worker_thread_count,
                   global_completion_queue, is_openslide_loading_done, is_openslide_available, pc, cur,
                   live, execCount, outcome, notified>>

\* set_active_worker_count
SetActiveWorkerCount(n) ==
    /\ Running
    /\ pc[0] = "idle"
    /\ n # global_active_worker_thread_count
    /\ global_active_worker_thread_count' = n
    /\ UNCHANGED pureVars
    /\ UNCHANGED <<procState, global_work_queue,
                   global_completion_queue, is_openslide_loading_done, is_openslide_available, pc, cur,
                   live, submitted, histVars>>

\* buffers carried by the messages of a queue
QueueBuffers(queue) ==
    {queue.entries[i].pixel_memory : i \in 1 .. Len(queue.entries)} \ {NULL}

\* poll_completions: the owning thread drains the completion queue; the
\* buffers pass to the consumer, which releases them after upload
PollCompletions ==
    /\ Running
    /\ pc[0] = "idle"
    /\ Len(global_completion_queue.entries) > 0
    /\ global_completion_queue' =
           [global_completion_queue EXCEPT !.entries = <<>>,
                                           !.completion_count = global_completion_queue.completion_goal]
    /\ live' = live \ QueueBuffers(global_completion_queue)
    /\ UNCHANGED pureVars
    /\ UNCHANGED <<procState, global_active_worker_thread_count, global_work_queue,
                   is_openslide_loading_done, is_openslide_available, pc, cur, submitted, histVars>>

\* load_wsi / load_image_from_file: OpenSlide is still loading, enter the loop
LoadWsiWait ==
    /\ Running
    /\ pc[0] = "idle"
    /\ ~is_openslide_available
    /\ ~is_openslide_loading_done
    /\ pc' = [pc EXCEPT ![0] = "drain_check"]
    /\ UNCHANGED pureVars
    /\ UNCHANGED <<procState, global_active_worker_thread_count, global_work_queue,
                   global_completion_queue, is_openslide_loading_done, is_openslide_available, cur,
                   live, submitted, histVars>>

\* mutant: the loop waits for the queue without working on it
DrainLoopBody_Spin == "drain_check"

\* the body of the loop: do_worker_work(&global_work_queue, 0);
DrainLoopBody == "do_work"

\* while (is_queue_work_in_progress(&global_work_queue))
DrainCheck ==
    /\ Running
    /\ pc[0] = "drain_check"
    /\ pc' = [pc EXCEPT ![0] = IF is_queue_work_in_progress(global_work_queue)
                               THEN DrainLoopBody ELSE "idle"]
    /\ UNCHANGED pureVars
    /\ UNCHANGED <<procState, global_active_worker_thread_count, global_work_queue,
                   global_completion_queue, is_openslide_loading_done, is_openslide_available, cur,
                   live, submitted, histVars>>

\* mutant: main() waits for the workers to go idle and joins them
MainExit_Join ==
    /\ Running
    /\ pc[0] = "idle"
    /\ \A w \in Workers : cur[w] = NoEntry
    /\ procState' = "exited"
    /\ pc' = [t \in Threads |-> IF t = 0 THEN pc[t] ELSE "joined"]
    /\ UNCHANGED pureVars
    /\ UNCHANGED <<global_active_worker_thread_count, global_work_queue,
                   global_completion_queue, is_openslide_loading_done, is_openslide_available, cur,
                   live, submitted, histVars>>

\* main() leaves the frame loop, cleans up and returns
MainExit ==
    /\ Running
    /\ pc[0] = "idle"
    /\ procState' = "exited"
    /\ UNCHANGED pureVars
    /\ UNCHANGED <<global_active_worker_thread_count, global_work_queue,
                   global_completion_queue, is_openslide_loading_done, is_openslide_available, pc, cur,
                   live, submitted, histVars>>

\* ------------------------------------------------------------ image open
\* what an opened OpenSlide handle reports: level-0 dimensions, the values
\* of the properties openslide.mpp-x and openslide.mpp-y (0: absent or not
\* positive) and, per native level, its downsample factor and dimensions.
\* Level 0 has downsample 1 and a level's dimensions are the level-0
\* dimensions divided by its downsample.
MppXValues == {0, 2}
MppYValues == {0, 3}

LevelDim(dim, factor) == IF dim \div factor = 0 THEN 1 ELSE dim \div factor

OsrLevel(w, h, f) == [downsample |-> f, width |-> LevelDim(w, f), height |-> LevelDim(h, f)]

OpenSlideReports ==
    { [open_result |-> "ok",
       width |-> w, height |-> h, level_count |-> Len(fs),
       mpp_x |-> mx, mpp_y |-> my,
       levels |-> [i \in 1 .. Len(fs) |-> OsrLevel(w, h, fs[i])]] :
        w \in 1 .. MaxDim, h \in 1 .. MaxDim, mx \in MppXValues, my \in MppYValues,
        fs \in { g \in UNION { [1 .. n -> 1 .. MaxFactor] : n \in 1 .. MaxNativeLevels } :
                    g[1] = 1 } }

\* the ways openslide_open and the calls after it fail (lines 173-190): no
\* handle is returned, the handle carries an error string, or the level
\* count is -1
OpenFailures == {"no_handle", "error_string", "level_count_error"}

\* a file OpenSlide fails to open: nothing is reported but the failure
FailedOpens ==
    { [open_result |-> k,
       width |-> 0, height |-> 0,
       level_count |-> IF k = "level_count_error" THEN -1 ELSE 0,
       mpp_x |-> 0, mpp_y |-> 0,
       levels |-> <<>>] : k \in OpenFailures }

\* the value of wsi->osr for an open handle
OpenHandle == 1

\* (i32) roundf(log2f(f)) for a factor f >= 1
RoundLog2(f) == CHOOSE i \in 0 .. f : 2^(2*i) <= 2*f*f /\ 2*f*f < 2^(2*i + 2)

\* mutant: the factor grows by one per level
Exp2_Linear(l) == l + 1

\* exp2f() of a level
Exp2(l) == 2^l

\* wsi->mpp_x, wsi->mpp_y: the default when the slide has no mpp property
DefaultMpp == 1

\* lines 215-233: the reported value if it is positive, else the default
Mpp(reported) == IF reported > 0 THEN reported ELSE DefaultMpp

\* how many tiles of WSI_TILE_DIM cover `dim` pixels (lines 241-244)
TilesAcross(dim) == (dim \div WSI_TILE_DIM) + (IF dim % WSI_TILE_DIM # 0 THEN 1 ELSE 0)

\* mutant: the tile count is the sum of the grid dimensions
TileCount_Sum(width_in_tiles, height_in_tiles) == width_in_tiles + height_in_tiles

\* level->tile_count = level->width_in_tiles * level->height_in_tiles;  (line 259)
TileCount(width_in_tiles, height_in_tiles) == width_in_tiles * height_in_tiles

\* one wsi_level_t as filled by the loop of load_wsi (lines 236-260)
WsiLevel(lv, mpp_x, mpp_y) ==
    LET downsample_level == RoundLog2(lv.downsample)
        downsample_factor == Exp2(downsample_level)
        width_in_tiles == TilesAcross(lv.width)
        height_in_tiles == TilesAcross(lv.height)
    IN  [width |-> lv.width, height |-> lv.height,
         width_in_tiles |-> width_in_tiles, height_in_tiles |-> height_in_tiles,
         tile_width |-> WSI_TILE_DIM, tile_height |-> WSI_TILE_DIM,
         downsample_level |-> downsample_level,
         downsample_factor |-> downsample_factor,
         um_per_pixel_x |-> downsample_factor * mpp_x,
         um_per_pixel_y |-> downsample_factor * mpp_y,
         x_tile_side_in_um |-> downsample_factor * mpp_x * WSI_TILE_DIM,
         y_tile_side_in_um |-> downsample_factor * mpp_y * WSI_TILE_DIM,
         tile_count |-> TileCount(width_in_tiles, height_in_tiles)]

Max(S) == CHOOSE x \in S : \A y \in S : x >= y

\* the wsi_t after load_wsi on an opened handle
LoadedWsi(handle) ==
    LET mpp_x == Mpp(handle.mpp_x)
        mpp_y == Mpp(handle.mpp_y)
        levels == [i \in 1 .. handle.level_count |-> WsiLevel(handle.levels[i], mpp_x, mpp_y)]
    IN  [osr |-> OpenHandle,
         level_count |-> handle.level_count,
         width |-> handle.width, height |-> handle.height,
         tile_width |-> WSI_TILE_DIM, tile_height |-> WSI_TILE_DIM,
         mpp_x |-> mpp_x, mpp_y |-> mpp_y,
         levels |-> levels,
         max_downsample_level |->
             Max({0} \cup {levels[i].downsample_level : i \in 1 .. handle.level_count})]

\* panic(): the process is terminated; `where` records the call
Panic(where) ==
    /\ procState' = "aborted"
    /\ openPc' = where

\* the wsi_t inside the zero-initialised image_t (line 557)
ZeroWsi ==
    [osr |-> NULL, level_count |-> 0, width |-> 0, height |-> 0,
     tile_width |-> 0, tile_height |-> 0, mpp_x |-> 0, mpp_y |-> 0,
     levels |-> <<>>, max_downsample_level |-> 0]

\* mutant: the handle is closed but the pointer is left in the wsi_t
unload_wsi_KeepsHandle(w) == w

\* unload_wsi (lines 758-764): the handle is closed and wsi->osr cleared
unload_wsi(w) == [w EXCEPT !.osr = NULL]

\* load_wsi (lines 170-260): the open and its three failure returns, then
\* the levels of a handle that opened without error
load_wsi ==
    /\ Running
    /\ openPc = "load_wsi"
    /\ LET w0 == unload_wsi(ZeroWsi) IN
       CASE osr.open_result = "no_handle" ->
              /\ wsi' = w0
              /\ openPc' = "map_levels"
              /\ UNCHANGED procState
         [] osr.open_result = "error_string" ->
              /\ wsi' = unload_wsi([w0 EXCEPT !.osr = OpenHandle])
              /\ openPc' = "map_levels"
              /\ UNCHANGED procState
         [] osr.open_result = "level_count_error" ->
              /\ wsi' = unload_wsi([w0 EXCEPT !.osr = OpenHandle,
                                              !.level_count = osr.level_count])
              /\ openPc' = "map_levels"
              /\ UNCHANGED procState
         [] OTHER ->
              IF osr.level_count > WSI_MAX_LEVELS
              THEN /\ Panic("panic_in_load_wsi")
                   /\ UNCHANGED wsi
              ELSE /\ wsi' = LoadedWsi(osr)
                   /\ openPc' = "map_levels"
                   /\ UNCHANGED procState
    /\ UNCHANGED <<global_active_worker_thread_count, global_work_queue,
                   global_completion_queue, is_openslide_loading_done, is_openslide_available, pc, cur, live,
                   submitted, histVars, osr, image, tileVars, cacheVars, regionVars>>

\* the scan of lines 683-691: the wsi level index of the first level at or
\* after `from` whose downsample_level is `wanted`, or w.level_count if none
RECURSIVE ScanForMatch(_, _, _)

\* mutant: the scan never finds a match
ScanForMatch_None(w, from, wanted) == w.level_count

ScanForMatch(w, from, wanted) ==
    IF from >= w.level_count THEN w.level_count
    ELSE IF w.levels[from + 1].downsample_level = wanted THEN from
    ELSE ScanForMatch(w, from + 1, wanted)

\* mutant: every matched level records the first wsi level
PyramidImageIndex_First(wsi_level_index) == 0

\* downsample_level_image->pyramid_image_index = wsi_level_index;  (line 696)
PyramidImageIndex(wsi_level_index) == wsi_level_index

\* the level_image_t of a logical level backed by wsi level `wsi_level_index`
\* (lines 693-729)
MatchedLevelImage(w, wsi_level_index) ==
    LET wsi_file_level == w.levels[wsi_level_index + 1]
    IN  [exists |-> TRUE,
         pyramid_image_index |-> PyramidImageIndex(wsi_level_index),
         downsample_factor |-> wsi_file_level.downsample_factor,
         tile_count |-> wsi_file_level.tile_count,
         width_in_tiles |-> wsi_file_level.width_in_tiles,
         height_in_tiles |-> wsi_file_level.height_in_tiles,
         tile_width |-> wsi_file_level.tile_width,
         tile_height |-> wsi_file_level.tile_height,
         um_per_pixel_x |-> wsi_file_level.um_per_pixel_x,
         um_per_pixel_y |-> wsi_file_level.um_per_pixel_y,
         x_tile_side_in_um |-> wsi_file_level.x_tile_side_in_um,
         y_tile_side_in_um |-> wsi_file_level.y_tile_side_in_um]

\* mutant: a placeholder level keeps the scale of level 0
PlaceholderUmPerPixel_Base(mpp, downsample_factor) == mpp

\* image.mpp_x * downsample_level_image->downsample_factor  (lines 738-739)
PlaceholderUmPerPixel(mpp, downsample_factor) == mpp * downsample_factor

\* the level_image_t of a logical level without a wsi level (lines 731-743);
\* the fields the code does not assign keep the 0 of the memset at line 665
PlaceholderLevelImage(w, wanted_downsample_level) ==
    LET downsample_factor == Exp2(wanted_downsample_level)
    IN  [exists |-> FALSE,
         pyramid_image_index |-> 0,
         downsample_factor |-> downsample_factor,
         tile_count |-> 0,
         width_in_tiles |-> 0,
         height_in_tiles |-> 0,
         tile_width |-> w.tile_width,
         tile_height |-> w.tile_height,
         um_per_pixel_x |-> PlaceholderUmPerPixel(w.mpp_x, downsample_factor),
         um_per_pixel_y |-> PlaceholderUmPerPixel(w.mpp_y, downsample_factor),
         x_tile_side_in_um |->
             PlaceholderUmPerPixel(w.mpp_x, downsample_factor) * w.levels[1].tile_width,
         y_tile_side_in_um |->
             PlaceholderUmPerPixel(w.mpp_y, downsample_factor) * w.levels[1].tile_height]

\* the loop of lines 679-745 from logical level `downsample_level` on;
\* `acc` holds the level images built so far
RECURSIVE BuildLevelImages(_, _, _, _, _)
BuildLevelImages(w, level_count, downsample_level, next_wsi_level_index_to_check_for_match, acc) ==
    IF downsample_level >= level_count THEN acc
    ELSE LET wsi_level_index ==
                 ScanForMatch(w, next_wsi_level_index_to_check_for_match, downsample_level)
             found_wsi_level_for_downsample_level == wsi_level_index < w.level_count
         IN  IF found_wsi_level_for_downsample_level
             THEN BuildLevelImages(w, level_count, downsample_level + 1, wsi_level_index + 1,
                                   Append(acc, MatchedLevelImage(w, wsi_level_index)))
             ELSE BuildLevelImages(w, level_count, downsample_level + 1,
                                   next_wsi_level_index_to_check_for_match,
                                   Append(acc, PlaceholderLevelImage(w, downsample_level)))

\* mutant: the number of wsi levels is not compared with the logical count
TooManyWsiLevels_Unchecked(w, level_count) == FALSE

\* if (wsi->level_count > image.level_count) panic();  (line 669)
TooManyWsiLevels(w, level_count) == w.level_count > level_count

\* the image_t returned by load_image_from_file; level_images[l + 1] is the
\* level image of logical level l
OpenedImage(w) ==
    LET level_count == w.max_downsample_level + 1
    IN  [is_valid |-> TRUE,
         level_count |-> level_count,
         tile_width |-> w.tile_width, tile_height |-> w.tile_height,
         width_in_pixels |-> w.width, height_in_pixels |-> w.height,
         mpp_x |-> w.mpp_x, mpp_y |-> w.mpp_y,
         width_in_um |-> w.width * w.mpp_x, height_in_um |-> w.height * w.mpp_y,
         level_images |-> BuildLevelImages(w, level_count, 0, 0, <<>>)]

\* the image_t returned when wsi->osr is NULL after load_wsi: the
\* zero-initialised image of line 557 with its type and backend set
InvalidImage ==
    [is_valid |-> FALSE,
     level_count |-> 0,
     tile_width |-> 0, tile_height |-> 0,
     width_in_pixels |-> 0, height_in_pixels |-> 0,
     mpp_x |-> 0, mpp_y |-> 0,
     width_in_um |-> 0, height_in_um |-> 0,
     level_images |-> <<>>]

\* load_image_from_file, OpenSlide branch after load_wsi (lines 650-753)
load_image_from_file ==
    /\ Running
    /\ openPc = "map_levels"
    /\ LET level_count == wsi.max_downsample_level + 1 IN
       IF wsi.osr = NULL
       THEN /\ image' = InvalidImage
            /\ openPc' = "open_failed"
            /\ UNCHANGED procState
       ELSE IF AssertFails(wsi.level_count > 0 /\ wsi.levels[1].x_tile_side_in_um > 0)
       THEN /\ Panic("assert_in_map_levels")
            /\ UNCHANGED image
       ELSE IF TooManyWsiLevels(wsi, level_count) \/ level_count > WSI_MAX_LEVELS
       THEN /\ Panic("panic_in_map_levels")
            /\ UNCHANGED image
       ELSE /\ image' = OpenedImage(wsi)
            /\ openPc' = "opened"
            /\ UNCHANGED procState
    /\ UNCHANGED <<global_active_worker_thread_count, global_work_queue,
                   global_completion_queue, is_openslide_loading_done, is_openslide_available, pc, cur, live,
                   submitted, histVars, osr, wsi, tileVars, cacheVars, regionVars>>

\* an image open followed from the opened handle to the returned image
OpenInit ==
    /\ EngineInit
    /\ NoRegion
    /\ NoTile
    /\ NoCache
    /\ osr \in OpenSlideReports \cup FailedOpens
    /\ wsi = <<>>
    /\ image = <<>>
    /\ openPc = "load_wsi"

OpenNext ==
    \/ load_wsi
    \/ load_image_from_file

OpenSpec == OpenInit /\ [][OpenNext]_vars

\* ------------------------------------------------- tile decode, in bytes
\* One call of load_tile_func followed through the bytes of its buffer.  A
\* pixel stands for its BYTES_PER_PIXEL bytes; microns are level-0 pixels
\* (mpp 1) and the float expressions are evaluated exactly.
TilePixels == (0 .. (WSI_TILE_DIM - 1)) \X (0 .. (WSI_TILE_DIM - 1))

\* memset(temp_memory, 0xFF, pixel_memory_size)  (line 55)
FreshBuffer == [px \in TilePixels |-> 255]

\* the level-0 pixels [lo, hi) that pixel column (or row) `i` of tile `t`
\* of a level with downsample factor `f` stands for
PixelLo(t, i, f) == (t * WSI_TILE_DIM + i) * f
PixelHi(t, i, f) == (t * WSI_TILE_DIM + i + 1) * f

\* what a backend decoder writes for the tile: a non-zero value that names
\* the pixel inside the image; beyond the image edge either the same (the
\* padding of the stored tile) or zero, when the backend clears it itself
BackendPixels(task) ==
    [px \in TilePixels |->
        IF task.backend_pads /\
           (\/ PixelLo(task.tile_y, px[1], task.level_image.downsample_factor)
                   >= task.image.height_in_pixels
            \/ PixelLo(task.tile_x, px[2], task.level_image.downsample_factor)
                   >= task.image.width_in_pixels)
        THEN 0
        ELSE 1 + px[1] * WSI_TILE_DIM + px[2]]

\* resource ids a task can carry
ResourceIds == 1 .. 2

\* the task, the fields of image_t and level_image_t it reads, the backend's
\* behaviour, and the locals of load_tile_func; `zeroed` counts the memset
\* writes of the trimming per pixel and `oob_write` records a memset that
\* reached outside the buffer
TileTask(w, h, level, tile_x, tile_y, be, ok, pads, resource_id) ==
    [resource_id |-> resource_id,
     level |-> level, tile_x |-> tile_x, tile_y |-> tile_y,
     image |-> [backend |-> be,
                width_in_pixels |-> w, height_in_pixels |-> h,
                width_in_um |-> w * DefaultMpp, height_in_um |-> h * DefaultMpp],
     level_image |-> [exists |-> TRUE,
                      downsample_factor |-> Exp2(level),
                      width_in_tiles |-> TilesAcross(LevelDim(w, Exp2(level))),
                      height_in_tiles |-> TilesAcross(LevelDim(h, Exp2(level))),
                      tile_width |-> WSI_TILE_DIM, tile_height |-> WSI_TILE_DIM,
                      x_tile_side_in_um |-> Exp2(level) * DefaultMpp * WSI_TILE_DIM,
                      y_tile_side_in_um |-> Exp2(level) * DefaultMpp * WSI_TILE_DIM],
     backend_ok |-> ok, backend_pads |-> pads,
     tile_index |-> 0, tile_x_excess |-> 0, tile_y_excess |-> 0,
     failed |-> FALSE, new_tile_height |-> 0, excess_rows |-> 0, excess_pixels |-> 0,
     zeroed |-> [px \in TilePixels |-> 0], oob_write |-> FALSE,
     completion_task |-> <<>>]

\* the decode requests followed: any tile of an existing level of an image,
\* on any backend; the code does not compare the tile coordinates with the
\* level's grid, so the coordinates range beyond it
TileTasks ==
    { TileTask(w, h, level, tile_x, tile_y, be, ok, pads, resource_id) :
        w \in 1 .. MaxDim, h \in 1 .. MaxDim, level \in 0 .. MaxTileLevel,
        tile_x \in 0 .. MaxDim, tile_y \in 0 .. MaxDim,
        be \in Backends, ok \in BOOLEAN, pads \in BOOLEAN,
        resource_id \in ResourceIds }

InGrid(task) ==
    /\ task.tile_x < task.level_image.width_in_tiles
    /\ task.tile_y < task.level_image.height_in_tiles

\* i32 tile_index = tile_y * level_image->width_in_tiles + tile_x;  (line 43)
TileIndex(task) == task.tile_y * task.level_image.width_in_tiles + task.tile_x

\* lines 42-115 without the trimming: the tile index, the excess, the buffer
\* and the backend dispatch
tile_backend_decode ==
    /\ Running
    /\ tilePc = "decode"
    /\ LET r == load_tile_decode({}, 1, tile_task.image.backend, tile_task.backend_ok)
           tile_world_pos_x_end == (tile_task.tile_x + 1) * tile_task.level_image.x_tile_side_in_um
           tile_world_pos_y_end == (tile_task.tile_y + 1) * tile_task.level_image.y_tile_side_in_um
       IN
       /\ tile_task' = [tile_task EXCEPT
                           !.tile_index = TileIndex(tile_task),
                           !.tile_x_excess = tile_world_pos_x_end - tile_task.image.width_in_um,
                           !.tile_y_excess = tile_world_pos_y_end - tile_task.image.height_in_um,
                           !.failed = r.failed]
       /\ temp_memory' = IF r.failed \/ r.abort THEN FreshBuffer ELSE BackendPixels(tile_task)
       /\ procState' = IF r.abort THEN "aborted" ELSE procState
       /\ tilePc' = IF r.abort THEN "aborted"
                    ELSE IF tile_task.image.backend = "TIFF" THEN "trim_rows" ELSE "cleanup"
    /\ UNCHANGED <<global_active_worker_thread_count, global_work_queue,
                   global_completion_queue, is_openslide_loading_done, is_openslide_available, pc, cur, live,
                   submitted, histVars, openVars, cacheVars, regionVars>>

\* (int)((excess / tile_side_in_um) * tile_dim) for excess > 0  (lines 78, 84)
ExcessCount(excess, tile_side_in_um, tile_dim) ==
    (excess * tile_dim) \div tile_side_in_um

\* position of a pixel in the buffer, in pixels
FlatIndex(px) == px[1] * WSI_TILE_DIM + px[2]
BufferIndices == 0 .. (WSI_TILE_DIM * WSI_TILE_DIM - 1)

\* the positions written by
\* memset(temp_memory + (new_tile_height * pitch), 0, excess_rows * pitch)
RowPassWrites(new_tile_height, excess_rows) ==
    (new_tile_height * WSI_TILE_DIM) .. (new_tile_height * WSI_TILE_DIM + excess_rows * WSI_TILE_DIM - 1)

\* mutant: the column pass goes over every row of the tile
ColumnPassRows_All(new_tile_height) == 0 .. (WSI_TILE_DIM - 1)

\* for (i32 row = 0; row < new_tile_height; ++row)  (line 86)
ColumnPassRows(new_tile_height) == 0 .. (new_tile_height - 1)

\* the positions written for `row` by
\* memset(temp_memory + (row * pitch) + (new_tile_width * BYTES_PER_PIXEL), 0, excess_pixels * BYTES_PER_PIXEL)
ColumnPassWrites(row, new_tile_width, excess_pixels) ==
    (row * WSI_TILE_DIM + new_tile_width) .. (row * WSI_TILE_DIM + new_tile_width + excess_pixels - 1)

\* mutant: the trimmed height is stored in the level image
StoreTrimmedHeight_InLevel(task, excess_rows, new_tile_height) ==
    [task EXCEPT !.excess_rows = excess_rows,
                 !.new_tile_height = new_tile_height,
                 !.level_image.tile_height = new_tile_height]

\* the locals new_tile_height and excess_rows after lines 74-79
StoreTrimmedHeight(task, excess_rows, new_tile_height) ==
    [task EXCEPT !.excess_rows = excess_rows,
                 !.new_tile_height = new_tile_height]

\* a memset that reached outside the buffer has undefined behaviour: the
\* call goes on with a damaged heap or the process is stopped by a fault
AfterWrite(writes, next) ==
    IF writes \subseteq BufferIndices
    THEN tilePc' = next /\ UNCHANGED procState
    ELSE \/ tilePc' = next /\ UNCHANGED procState
         \/ tilePc' = "fault" /\ procState' = "aborted"

\* lines 74-81: the rows beyond the image are cleared
tile_trim_rows ==
    /\ Running
    /\ tilePc = "trim_rows"
    /\ LET excess_rows == ExcessCount(tile_task.tile_y_excess,
                                      tile_task.level_image.y_tile_side_in_um,
                                      tile_task.level_image.tile_height)
           new_tile_height == tile_task.level_image.tile_height - excess_rows
           writes == RowPassWrites(new_tile_height, excess_rows)
       IN
       IF tile_task.tile_y_excess > 0
       THEN /\ tile_task' =
                  [StoreTrimmedHeight(tile_task, excess_rows, new_tile_height) EXCEPT
                      !.zeroed = [px \in TilePixels |->
                                     @[px] + (IF FlatIndex(px) \in writes THEN 1 ELSE 0)],
                      !.oob_write = @ \/ ~(writes \subseteq BufferIndices)]
            /\ temp_memory' = [px \in TilePixels |->
                                  IF FlatIndex(px) \in writes THEN 0 ELSE temp_memory[px]]
            /\ AfterWrite(writes, "trim_columns")
       ELSE /\ tile_task' = StoreTrimmedHeight(tile_task, 0, tile_task.level_image.tile_height)
            /\ UNCHANGED temp_memory
            /\ AfterWrite({}, "trim_columns")
    /\ UNCHANGED <<global_active_worker_thread_count, global_work_queue,
                   global_completion_queue, is_openslide_loading_done, is_openslide_available, pc, cur, live,
                   submitted, histVars, openVars, cacheVars, regionVars>>

\* lines 82-90: the columns beyond the image are cleared in the rows left
tile_trim_columns ==
    /\ Running
    /\ tilePc = "trim_columns"
    /\ LET excess_pixels == ExcessCount(tile_task.tile_x_excess,
                                        tile_task.level_image.x_tile_side_in_um,
                                        tile_task.level_image.tile_width)
           new_tile_width == tile_task.level_image.tile_width - excess_pixels
           rows == ColumnPassRows(tile_task.new_tile_height)
           writes == UNION {ColumnPassWrites(row, new_tile_width, excess_pixels) : row \in rows}
       IN
       IF tile_task.tile_x_excess > 0
       THEN /\ tile_task' =
                  [tile_task EXCEPT
                      !.excess_pixels = excess_pixels,
                      !.zeroed = [px \in TilePixels |->
                                     @[px] + Cardinality({row \in rows :
                                                 FlatIndex(px) \in ColumnPassWrites(row, new_tile_width, excess_pixels)})],
                      !.oob_write = @ \/ ~(writes \subseteq BufferIndices)]
            /\ temp_memory' = [px \in TilePixels |->
                                  IF FlatIndex(px) \in writes THEN 0 ELSE temp_memory[px]]
            /\ AfterWrite(writes, "cleanup")
       ELSE /\ UNCHANGED <<tile_task, temp_memory>>
            /\ AfterWrite({}, "cleanup")
    /\ UNCHANGED <<global_active_worker_thread_count, global_work_queue,
                   global_completion_queue, is_openslide_loading_done, is_openslide_available, pc, cur, live,
                   submitted, histVars, openVars, cacheVars, regionVars>>

\* the viewer_notify_tile_completed_task_t filled at lines 140-147;
\* pixel_memory is the number of pixels of the buffer it points to, NULL
\* after a failed decode
CompletionMessage(task, pixels) ==
    [resource_id |-> task.resource_id,
     pixel_memory |-> IF task.failed THEN NULL ELSE Cardinality(DOMAIN pixels),
     tile_width |-> task.level_image.tile_width,
     tile_height |-> task.level_image.tile_height,
     scale |-> task.level,
     tile_index |-> task.tile_index,
     want_gpu_residency |-> TRUE]

\* lines 118-153: a failed decode frees the buffer; the completion message
\* is filled and handed to the callback
tile_cleanup ==
    /\ Running
    /\ tilePc = "cleanup"
    /\ temp_memory' = IF tile_task.failed THEN <<>> ELSE temp_memory
    /\ tile_task' = [tile_task EXCEPT !.completion_task = CompletionMessage(tile_task, temp_memory)]
    /\ tilePc' = IF tile_task.failed THEN "failed" ELSE "delivered"
    /\ UNCHANGED <<procState, global_active_worker_thread_count, global_work_queue,
                   global_completion_queue, is_openslide_loading_done, is_openslide_available, pc, cur, live,
                   submitted, histVars, openVars, cacheVars, regionVars>>

TileInit ==
    /\ EngineInit
    /\ NoRegion
    /\ NoOpen
    /\ NoCache
    /\ tile_task \in {task \in TileTasks :
                         task.image.backend = "OPENSLIDE" => task.backend_pads}
    /\ temp_memory = <<>>
    /\ tilePc = "decode"

TileNext ==
    \/ tile_backend_decode
    \/ tile_trim_rows
    \/ tile_trim_columns
    \/ tile_cleanup

TileSpec == TileInit /\ [][TileNext]_vars

\* ------------------------------------------------------------ tile cache
\* The tiles of one level as the drain thread sees them.  Buffers are named
\* by the order of their allocation.
TileIds == 1 .. NTiles
TileBuffers == 1 .. MaxTileBuffers

\* a tile_t after the memset of its level's tile array
EmptyTile == [pixels |-> NULL, is_cached |-> FALSE, need_keep_in_cache |-> FALSE]

\* the drain thread moves the buffer of a completion message into the tile
tile_cache_insert(i, keep) ==
    /\ Running
    /\ ~tiles[i].is_cached
    /\ tiles[i].pixels = NULL
    /\ tile_allocs < MaxTileBuffers
    /\ LET b == tile_allocs + 1 IN
       /\ tile_allocs' = b
       /\ tile_heap' = Malloc(tile_heap, b)
       /\ tiles' = [tiles EXCEPT ![i] = [pixels |-> b, is_cached |-> TRUE,
                                         need_keep_in_cache |-> keep]]
    /\ UNCHANGED <<tile_frees, tile_releases>>
    /\ UNCHANGED <<engineVars, openVars, tileVars, regionVars>>

\* mutant: the pointer is left in the tile
ReleasedTile_KeepsPointer(tile) ==
    [tile EXCEPT !.is_cached = FALSE, !.need_keep_in_cache = FALSE]

\* lines 769-771: the fields of the tile after tile_release_cache
ReleasedTile(tile) ==
    [tile EXCEPT !.pixels = NULL, !.is_cached = FALSE, !.need_keep_in_cache = FALSE]

\* tile_release_cache(tile)
tile_release_cache(i) ==
    /\ Running
    /\ tile_releases[i] < MaxReleases
    /\ tile_releases' = [tile_releases EXCEPT ![i] = @ + 1]
    /\ IF tiles[i].pixels # NULL
       THEN /\ tile_heap' = Free(tile_heap, tiles[i].pixels)
            /\ tile_frees' = [tile_frees EXCEPT ![tiles[i].pixels] = @ + 1]
       ELSE UNCHANGED <<tile_heap, tile_frees>>
    /\ tiles' = [tiles EXCEPT ![i] = ReleasedTile(tiles[i])]
    /\ UNCHANGED tile_allocs
    /\ UNCHANGED <<engineVars, openVars, tileVars, regionVars>>

CacheInit ==
    /\ EngineInit
    /\ NoRegion
    /\ NoOpen
    /\ NoTile
    /\ tiles = [i \in TileIds |-> EmptyTile]
    /\ tile_heap = {}
    /\ tile_allocs = 0
    /\ tile_frees = [b \in TileBuffers |-> 0]
    /\ tile_releases = [i \in TileIds |-> 0]

CacheNext ==
    \/ \E i \in TileIds, keep \in BOOLEAN : tile_cache_insert(i, keep)
    \/ \E i \in TileIds : tile_release_cache(i)

CacheSpec == CacheInit /\ [][CacheNext]_vars

\* ------------------------------------------------- OpenSlide region read
\* The origin load_tile_func passes to openslide_read_region (lines 92-97).
\* The width of the 32-bit integers is scaled down.
Int32Bits == 4
Int32Max == 2^(Int32Bits - 1) - 1
UInt32Max == 2^Int32Bits - 1

\* the results a 32-bit operation with the exact result `exact` can give:
\* unsigned arithmetic wraps; signed overflow is undefined, the build gives
\* the wrapped two's complement value or carries on with the exact one
Int32Results(exact, is_signed) ==
    IF is_signed
    THEN IF exact <= Int32Max
         THEN {exact}
         ELSE {exact, ((exact + 2^(Int32Bits - 1)) % 2^Int32Bits) - 2^(Int32Bits - 1)}
    ELSE {exact % 2^Int32Bits}

Overflows(exact, is_signed) == exact > (IF is_signed THEN Int32Max ELSE UInt32Max)

\* the task and the geometry read for the origin.  The level-0 dimensions
\* fit a signed 32-bit integer.  The level's downsample and its dimensions
\* come from two calls to OpenSlide (lines 238 and 248) and are independent
\* inputs; tile_x is an i32, the type of level_image->tile_width is not in
\* the analysed sources and may be signed or unsigned.
RegionTask(w, h, level_width, level_height, f, tile_x, tile_y, is_signed) ==
    [level |-> RoundLog2(f), tile_x |-> tile_x, tile_y |-> tile_y,
     image |-> [width_in_pixels |-> w, height_in_pixels |-> h],
     level_image |-> [exists |-> TRUE,
                      width_in_tiles |-> TilesAcross(level_width),
                      height_in_tiles |-> TilesAcross(level_height),
                      tile_width |-> WSI_TILE_DIM, tile_height |-> WSI_TILE_DIM],
     tile_width_is_signed |-> is_signed,
     x |-> 0, y |-> 0, overflow |-> FALSE]

\* the tasks for the in-grid tiles of the levels of an image w x h; a level is
\* no larger than level 0
RegionTasksOf(w, h) ==
    UNION { { RegionTask(w, h, level_width, level_height, f, tile_x, tile_y, is_signed) :
                f \in 1 .. MaxFactor,
                tile_x \in 0 .. TilesAcross(level_width) - 1,
                tile_y \in 0 .. TilesAcross(level_height) - 1,
                is_signed \in BOOLEAN } :
            level_width \in 1 .. w, level_height \in 1 .. h }

RegionTasks ==
    UNION { RegionTasksOf(w, h) : w \in 1 .. Int32Max, h \in {1, Int32Max} }

\* (tile * tile_dim) << level, evaluated in 32 bits and widened to i64
\* (lines 95, 96): the values it can give
RegionOrigin(tile, tile_dim, level, is_signed) ==
    UNION { Int32Results(product * 2^level, is_signed) :
                product \in Int32Results(tile * tile_dim, is_signed) }

\* lines 93-97: the origin is computed and openslide_read_region is called
openslide_read_region ==
    /\ Running
    /\ regionPc = "origin"
    /\ LET t == region_task
           li == t.level_image
       IN  \E x \in RegionOrigin(t.tile_x, li.tile_width, t.level, t.tile_width_is_signed),
              y \in RegionOrigin(t.tile_y, li.tile_height, t.level, t.tile_width_is_signed) :
              region_task' = [t EXCEPT
                  !.x = x, !.y = y,
                  !.overflow =
                      \/ Overflows(t.tile_x * li.tile_width * 2^t.level, t.tile_width_is_signed)
                      \/ Overflows(t.tile_y * li.tile_height * 2^t.level, t.tile_width_is_signed)]
    /\ regionPc' = "read"
    /\ UNCHANGED <<engineVars, openVars, tileVars, cacheVars>>

RegionInit ==
    /\ EngineInit
    /\ NoOpen
    /\ NoTile
    /\ NoCache
    /\ region_task \in RegionTasks
    /\ regionPc = "origin"

RegionNext == openslide_read_region

RegionSpec == RegionInit /\ [][RegionNext]_vars

\* ------------------------------------------------------------------ spec
WorkerStep(w) ==
    \/ WorkerCheckEnabled(w)
    \/ WorkerCheckWaiting(w)
    \/ WorkerSemWait(w)

JobStep(t) ==
    \/ DoWorkerWork(t)
    \/ load_openslide_task(t)
    \/ load_tile_func(t)
    \/ MarkCompleted(t)

Next ==
    \/ \E w \in Workers : WorkerStep(w)
    \/ \E t \in Threads : JobStep(t)
    \/ \E level \in Levels : RequestTile(level)
    \/ \E n \in 0 .. NWorkers : SetActiveWorkerCount(n)
    \/ PollCompletions
    \/ LoadWsiWait
    \/ DrainCheck
    \/ MainExit

Spec == Init /\ [][Next]_vars

\* every thread that is not parked in the viewer loop keeps running
FairSpec ==
    /\ Spec
    /\ \A w \in Workers : WF_vars(WorkerStep(w) \/ JobStep(w))
    /\ WF_vars(JobStep(0) \/ DrainCheck)

TypeOK ==
    /\ procState \in {"running", "aborted", "exited"}
    /\ global_active_worker_thread_count \in 0 .. NWorkers
    /\ \A t \in Threads : cur[t].id \in 0 .. MaxJobs
    /\ live \subseteq JobIds
    /\ submitted \in 1 .. MaxJobs
    /\ is_openslide_loading_done \in BOOLEAN
    /\ is_openslide_available \in BOOLEAN
    /\ is_openslide_available => is_openslide_loading_done
    /\ regionPc \in {"none", "origin", "read"}
    /\ regionPc # "none" => InGrid(region_task)

\* ---------------------------------------------------------------- claims
\* C1: if at least one worker stays enabled (the process keeps running, the
\* active worker count stays >= 1 and settles), every job accepted by the
\* decode queue is eventually executed and retired, whatever workers were
\* disabled between jobs or while blocked on the semaphore.
C1_QueueDrains ==
    ( /\ [](Running /\ global_active_worker_thread_count >= 1)
      /\ \E n \in Workers : <>[](global_active_worker_thread_count = n) )
        => \A j \in JobIds : [](j \in Unretired => <>(j \notin Unretired))

\* C2: whenever a worker thread takes an entry in do_worker_work, its logical
\* index is <= the active worker count at that moment.
C2_DisabledNeverStarts ==
    [][\A w \in Workers :
          (cur[w] = NoEntry /\ cur'[w] # NoEntry) =>
              w <= global_active_worker_thread_count]_vars

\* C3: every accepted job is consumed exactly once: an entry is taken at most
\* once, never runs on two threads, and an accepted entry that has not been
\* taken is still waiting in the queue (no entry is skipped).
C3_ExactlyOnce ==
    /\ \A j \in JobIds : execCount[j] <= 1
    /\ \A t, u \in Threads : (t # u /\ cur[t] # NoEntry) => cur[t].id # cur[u].id
    /\ \A i, k \in 1 .. Len(global_work_queue.entries) :
          i # k => global_work_queue.entries[i].id # global_work_queue.entries[k].id
    /\ \A j \in JobIds :
          /\ (verdict[j] = "accepted" /\ execCount[j] = 0) => j \in Waiting
          /\ j \in Waiting => (verdict[j] = "accepted" /\ execCount[j] = 0)
          /\ j \in Executing => (verdict[j] = "accepted" /\ execCount[j] = 1)

\* thread 0 (drain loop) and a worker execute two different entries at once
C3_Witness ==
    /\ cur[0] # NoEntry
    /\ \E w \in Workers : cur[w] # NoEntry /\ cur[w].id # cur[0].id
    /\ \A j \in Executing : execCount[j] = 1

\* C4: a submission made while the number of accepted-but-unretired jobs equals
\* the queue capacity is rejected and changes nothing in the queue; any other
\* submission is accepted and joins the waiting entries; without draining,
\* exactly the first WorkQueueCapacity submissions are accepted.
C4_FullQueueRejects ==
    /\ [][submitted' = submitted + 1 =>
            IF Cardinality(Unretired) >= WorkQueueCapacity
            THEN /\ verdict'[submitted'] = "rejected"
                 /\ global_work_queue' = global_work_queue
            ELSE /\ verdict'[submitted'] = "accepted"
                 /\ Waiting' = Waiting \cup {submitted'}
                 /\ Executing' = Executing]_vars
    /\ []((\A j \in JobIds : execCount[j] = 0) =>
            \A j \in 1 .. submitted :
                (verdict[j] = "accepted") <=> (j <= WorkQueueCapacity))

\* the queue was filled without draining and the next submission was rejected
C4_Witness ==
    /\ \A j \in JobIds : execCount[j] = 0
    /\ submitted = WorkQueueCapacity + 1
    /\ verdict[submitted] = "rejected"
    /\ Len(global_work_queue.entries) = WorkQueueCapacity

C6_BuffersOwnedOnce ==
    Running =>
        \A b \in live :
            Cardinality({i \in 1 .. Len(global_completion_queue.entries) :
                            global_completion_queue.entries[i].pixel_memory = b}) = 1

\* C7: a decode job for a placeholder level is stopped by the ASSERT on
\* level_image->exists: it never reaches the backend dispatch, allocates
\* nothing and hands no message to the completion callback.
C7_PlaceholderRejected ==
    /\ [](\A t \in Threads :
            (cur[t].callback = "load_tile_func" /\ ~level_exists[cur[t].level]) =>
                /\ outcome[t] \in {"none", "placeholder_assert"}
                /\ notified[t] = "none"
                /\ pc[t] = "load_tile_func"
                /\ outcome[t] = "placeholder_assert" => procState = "aborted")
    /\ [][\A t \in Threads :
            (outcome[t] = "none" /\ outcome'[t] = "placeholder_assert") =>
                (live' = live /\ global_completion_queue' = global_completion_queue)]_vars

\* a placeholder job was taken by a thread and hit the ASSERT
C7_Witness ==
    \E t \in Threads :
        /\ cur[t].callback = "load_tile_func"
        /\ ~level_exists[cur[t].level]
        /\ outcome[t] = "placeholder_assert"
        /\ procState = "aborted"

\* C8: is_queue_work_in_progress is true exactly when some accepted job is
\* not retired, i.e. is waiting to start or is executing on a thread.
C8_InProgressIffUnretired ==
    is_queue_work_in_progress(global_work_queue) <=> (Unretired # {})

\* the queue is empty but a job is still executing
C8_Witness ==
    /\ Waiting = {}
    /\ Executing # {}
    /\ is_queue_work_in_progress(global_work_queue)

\* C9: a job a worker has started is not affected by the active worker count:
\* while the process runs the worker can always take the job's next step,
\* and the job only ever leaves the worker by being retired; it is never
\* put back in the queue and never taken a second time.
C9_InFlightJobFinishes ==
    /\ [](\A w \in Workers : (Running /\ cur[w] # NoEntry) => ENABLED JobStep(w))
    /\ [][\A w \in Workers :
            cur[w] # NoEntry =>
                /\ \/ cur'[w] = cur[w]
                   \/ /\ cur'[w] = NoEntry
                      /\ pc[w] = "retire"
                      /\ global_work_queue'.completion_count =
                             global_work_queue.completion_count + 1
                /\ cur[w].id \notin Waiting'
                /\ execCount'[cur[w].id] = execCount[cur[w].id]]_vars

\* a worker that has been disabled is in the middle of a job
C9_Witness ==
    \E w \in Workers :
        /\ w > global_active_worker_thread_count
        /\ cur[w] # NoEntry
        /\ pc[w] = "retire"

WorkerLoopPcs ==
    {"check_enabled", "check_waiting", "sem_wait", "do_work",
     "load_openslide_task", "load_tile_func", "retire"}

LogicalLevels == 0 .. (image.level_count - 1)
ExistingLevels == {l \in LogicalLevels : image.level_images[l + 1].exists}
Opened == openPc = "opened"

\* C11: in the level table of an opened image no wsi level index
\* (pyramid_image_index) is assigned to two different logical levels that
\* exist, and every assigned index is an index of a reported wsi level.
C11_MatchInjective ==
    Opened =>
        \A l, m \in ExistingLevels :
            /\ image.level_images[l + 1].pyramid_image_index \in 0 .. (wsi.level_count - 1)
            /\ l # m => image.level_images[l + 1].pyramid_image_index #
                            image.level_images[m + 1].pyramid_image_index

\* an opened image with two existing levels, from a slide that reports two
\* wsi levels with the same downsample level
C11_Witness ==
    /\ Opened
    /\ Cardinality(ExistingLevels) >= 2
    /\ \E i, k \in 1 .. wsi.level_count :
          i # k /\ wsi.levels[i].downsample_level = wsi.levels[k].downsample_level

\* C12: the level table of an opened image is dense (one entry for each of
\* the logical levels 0 .. level_count-1, in order) and the downsample factor
\* of logical level l is 2^l, whether the level is matched or a placeholder.
C12_FactorIsPowerOfTwo ==
    Opened =>
        /\ Len(image.level_images) = image.level_count
        /\ image.level_count >= 1
        /\ \A l \in LogicalLevels : image.level_images[l + 1].downsample_factor = 2^l

\* an opened image of three levels of which one is a placeholder
C12_Witness ==
    /\ Opened
    /\ image.level_count >= 3
    /\ ExistingLevels # LogicalLevels
    /\ Cardinality(ExistingLevels) >= 2

C14_TileCountIsGridArea ==
    Opened =>
        \A l \in LogicalLevels :
            image.level_images[l + 1].tile_count =
                image.level_images[l + 1].width_in_tiles *
                image.level_images[l + 1].height_in_tiles

\* an opened image with a placeholder level and an existing level whose grid
\* is more than one tile in both directions
C14_Witness ==
    /\ Opened
    /\ ExistingLevels # LogicalLevels
    /\ \E l \in ExistingLevels :
          /\ image.level_images[l + 1].width_in_tiles >= 2
          /\ image.level_images[l + 1].height_in_tiles >= 2
          /\ image.level_images[l + 1].tile_count >= 4

\* C15: every logical level of an opened image, placeholders included, has a
\* tile grid of at least one tile in each direction.
C15_UsableTileGrid ==
    Opened =>
        \A l \in LogicalLevels :
            /\ image.level_images[l + 1].width_in_tiles >= 1
            /\ image.level_images[l + 1].height_in_tiles >= 1

\* C16: when the slide reports more wsi levels than the logical level count
\* computed from them, the open is stopped by panic(): no image is returned
\* (none with is_valid set), so no level table exists that leaves a wsi
\* level out; an image is only returned when the wsi levels fit.
C16_TooManyLevelsAborts ==
    /\ openPc \in {"opened", "panic_in_map_levels"} =>
          ( (wsi.level_count > wsi.max_downsample_level + 1) =>
                /\ openPc = "panic_in_map_levels"
                /\ procState = "aborted"
                /\ image = <<>> )
    /\ Opened => (image.is_valid /\ wsi.level_count <= image.level_count)

\* the open was stopped because the slide reports more levels than computed
C16_Witness ==
    /\ openPc = "panic_in_map_levels"
    /\ wsi.level_count > wsi.max_downsample_level + 1
    /\ wsi.max_downsample_level + 1 <= WSI_MAX_LEVELS

\* C17: a malformed level ladder found at image open leaves the process
\* running and gives the caller an image that is not valid.
C17_ConfigErrorIsOpenFailure ==
    ( \/ osr.level_count > WSI_MAX_LEVELS
      \/ openPc \in {"panic_in_load_wsi", "panic_in_map_levels"} )
        => procState = "running"

\* pixels of the followed tile that lie wholly, or at least partly, beyond
\* the right or bottom edge of the image
WhollyBeyond(px) ==
    \/ PixelLo(tile_task.tile_y, px[1], tile_task.level_image.downsample_factor)
           >= tile_task.image.height_in_pixels
    \/ PixelLo(tile_task.tile_x, px[2], tile_task.level_image.downsample_factor)
           >= tile_task.image.width_in_pixels

PartlyBeyond(px) ==
    \/ PixelHi(tile_task.tile_y, px[1], tile_task.level_image.downsample_factor)
           > tile_task.image.height_in_pixels
    \/ PixelHi(tile_task.tile_x, px[2], tile_task.level_image.downsample_factor)
           > tile_task.image.width_in_pixels

\* C18: in the buffer delivered for a tile, on every backend, the pixels of
\* the rows and columns beyond the right or bottom edge of the image are zero
\* and all other pixels are what the backend decoded.
C18_ExcessIsZeroOnEveryBackend ==
    (tilePc = "delivered" /\ InGrid(tile_task)) =>
        \A px \in TilePixels :
            temp_memory[px] = IF WhollyBeyond(px) THEN 0
                              ELSE 1 + px[1] * WSI_TILE_DIM + px[2]

\* C19: the number of rows (columns) trimmed covers the excess: it is at
\* least excess / tile_side * tile_height (tile_width), so that no pixel
\* lying wholly or partly beyond the image edge is left non-zero.
C19_TrimCoversExcess ==
    ( /\ tile_task.image.backend = "TIFF"
      /\ InGrid(tile_task)
      /\ tilePc \in {"cleanup", "delivered", "failed"} ) =>
        /\ tile_task.tile_y_excess > 0 =>
              tile_task.excess_rows * tile_task.level_image.y_tile_side_in_um
                  >= tile_task.tile_y_excess * tile_task.level_image.tile_height
        /\ tile_task.tile_x_excess > 0 =>
              tile_task.excess_pixels * tile_task.level_image.x_tile_side_in_um
                  >= tile_task.tile_x_excess * tile_task.level_image.tile_width
        /\ tilePc = "delivered" =>
              \A px \in TilePixels : PartlyBeyond(px) => temp_memory[px] = 0

\* C20: a decode request on a backend load_tile_func does not support ends
\* as a failed tile and leaves the process running: the only way a decode
\* job stops the process is the ASSERT on a placeholder level.
C20_UnsupportedBackendFails ==
    /\ \A t \in Threads : outcome[t] # "invalid_code_path"
    /\ procState = "aborted" => \E t \in Threads : outcome[t] = "placeholder_assert"

\* C21: a decode job whose tile coordinates lie outside the grid of its
\* level is stopped before the backend dispatch: the process is terminated,
\* nothing is decoded and no completion message is built.
C21_OutOfGridJobStops ==
    (~InGrid(tile_task) /\ tilePc # "decode") =>
        /\ procState = "aborted"
        /\ temp_memory = <<>>
        /\ tile_task.completion_task = <<>>

\* C22: tile_release_cache leaves the tile without buffer, not cached and
\* not kept resident, whatever the flags were; it frees the buffer the tile
\* held and frees nothing when the tile held none, so no buffer is freed
\* twice, a tile holds a buffer exactly when it is cached, and the buffer a
\* tile holds has not been freed.
C22_ReleaseClearsTile ==
    /\ [](\A b \in TileBuffers : tile_frees[b] <= 1)
    /\ [](\A i \in TileIds :
            /\ (tiles[i].pixels # NULL) <=> tiles[i].is_cached
            /\ tiles[i].pixels # NULL => tiles[i].pixels \in tile_heap)
    /\ [][\A i \in TileIds :
            tile_releases'[i] = tile_releases[i] + 1 =>
                /\ tiles'[i] = EmptyTile
                /\ IF tiles[i].pixels = NULL
                   THEN tile_heap' = tile_heap /\ tile_frees' = tile_frees
                   ELSE /\ tile_heap' = tile_heap \ {tiles[i].pixels}
                        /\ tile_frees'[tiles[i].pixels] = 1]_vars

\* a tile was given the only buffer allocated and then released twice: the
\* buffer was freed once
C22_Witness ==
    \E i \in TileIds :
        /\ tile_releases[i] = 2
        /\ \A k \in TileIds \ {i} : tile_releases[k] = 0 /\ tiles[k] = EmptyTile
        /\ tile_allocs = 1
        /\ tile_frees[1] = 1
        /\ tiles[i] = EmptyTile
        /\ tile_heap = {}

\* the pixels the trimming of the followed tile has to clear
InTrimRegion(px) ==
    \/ px[1] >= tile_task.level_image.tile_height - tile_task.excess_rows
    \/ px[2] >= tile_task.level_image.tile_width - tile_task.excess_pixels

\* C23: for an in-grid tile on the TIFF backend, the trimming writes each
\* pixel of the rows >= new_tile_height and of the columns >= new_tile_width
\* of the rows left exactly once and no other pixel; the row pass comes
\* first and the column pass stays out of its rows; no write lands outside
\* the buffer; the pixels not written keep what the decoder produced.
C23_TrimClearsExactlyExcess ==
    (tile_task.image.backend = "TIFF" /\ InGrid(tile_task)) =>
        /\ ~tile_task.oob_write
        /\ tilePc # "fault"
        /\ tilePc = "trim_columns" =>
              \A px \in TilePixels :
                  tile_task.zeroed[px] =
                      IF px[1] >= tile_task.new_tile_height THEN 1 ELSE 0
        /\ tilePc \in {"cleanup", "delivered", "failed"} =>
              /\ tile_task.excess_rows \in 0 .. tile_task.level_image.tile_height
              /\ tile_task.excess_pixels \in 0 .. tile_task.level_image.tile_width
              /\ tile_task.new_tile_height =
                     tile_task.level_image.tile_height - tile_task.excess_rows
              /\ \A px \in TilePixels :
                     tile_task.zeroed[px] = IF InTrimRegion(px) THEN 1 ELSE 0
        /\ tilePc = "delivered" =>
              \A px \in TilePixels :
                  temp_memory[px] = IF InTrimRegion(px) THEN 0
                                    ELSE BackendPixels(tile_task)[px]

\* a delivered TIFF tile that was trimmed in both directions
C23_Witness ==
    /\ tilePc = "delivered"
    /\ tile_task.image.backend = "TIFF"
    /\ InGrid(tile_task)
    /\ ~tile_task.backend_pads
    /\ tile_task.excess_rows >= 1
    /\ tile_task.excess_pixels >= 1
    /\ \E px \in TilePixels : tile_task.zeroed[px] = 0

\* C25: no step of load_tile_func changes the task, the image or the level
\* image it reads, a tile of the cache, or the decode queue.
C25_DecodeLeavesImageUnchanged ==
    [][/\ tile_task'.image = tile_task.image
       /\ tile_task'.level_image = tile_task.level_image
       /\ tile_task'.level = tile_task.level
       /\ tile_task'.tile_x = tile_task.tile_x
       /\ tile_task'.tile_y = tile_task.tile_y
       /\ tile_task'.resource_id = tile_task.resource_id
       /\ cacheVars' = cacheVars
       /\ global_work_queue' = global_work_queue]_vars

\* a TIFF tile was decoded, trimmed and handed over with its message
C25_Witness ==
    /\ tilePc = "delivered"
    /\ tile_task.image.backend = "TIFF"
    /\ tile_task.excess_rows >= 1
    /\ tile_task.completion_task # <<>>
    /\ tile_task.level_image.tile_height = WSI_TILE_DIM

\* C26: a logical level of an opened image exists only if some wsi level
\* reports a downsample factor of exactly 2^level.
C26_ExistsOnlyForExactPowerOfTwo ==
    Opened =>
        \A l \in ExistingLevels :
            \E i \in 1 .. osr.level_count : osr.levels[i].downsample = 2^l

\* C27: the logical level count of an opened image covers every reported
\* downsample factor: f <= 2^(level_count - 1) for every wsi level.
C27_LevelCountCoversMaxFactor ==
    Opened =>
        \A i \in 1 .. osr.level_count :
            osr.levels[i].downsample <= 2^(image.level_count - 1)

\* C28: a placeholder level of an opened image does not exist, has the tile
\* size of the image, microns per pixel of image.mpp * 2^level on each axis
\* and a tile side in microns of that scale times the tile size.
C28_PlaceholderGeometry ==
    Opened =>
        \A l \in LogicalLevels \ ExistingLevels :
            LET li == image.level_images[l + 1] IN
            /\ ~li.exists
            /\ li.tile_width = image.tile_width
            /\ li.tile_height = image.tile_height
            /\ li.um_per_pixel_x = image.mpp_x * 2^l
            /\ li.um_per_pixel_y = image.mpp_y * 2^l
            /\ li.x_tile_side_in_um = image.mpp_x * 2^l * image.tile_width
            /\ li.y_tile_side_in_um = image.mpp_y * 2^l * image.tile_height

\* an opened image with a placeholder at level 1 or above, from a slide that
\* reports its microns per pixel
C28_Witness ==
    /\ Opened
    /\ image.mpp_x = 2
    /\ image.mpp_y = 3
    /\ \E l \in LogicalLevels \ ExistingLevels : l >= 1 /\ l < image.level_count - 1

\* C29: in an opened image every reported wsi level is the
\* pyramid_image_index of exactly one existing logical level.
C29_EveryNativeLevelReferenced ==
    Opened =>
        \A i \in 0 .. (wsi.level_count - 1) :
            Cardinality({l \in ExistingLevels :
                            image.level_images[l + 1].pyramid_image_index = i}) = 1

\* positions of thread 0 inside the synchronous drain loop
DrainPcs == {"drain_check", "do_work", "load_openslide_task", "load_tile_func", "retire"}

\* C24: the drain loop of thread 0 always comes to an end (or the process is
\* stopped by an ASSERT), also while no worker thread is enabled; when the
\* loop exits, the startup job has been taken once and retired,
\* is_openslide_loading_done is set, and is_openslide_available does not
\* change any more.
C24_DrainLoopTerminates ==
    /\ [](pc[0] \in DrainPcs => <>(pc[0] = "idle" \/ ~Running))
    /\ [][(pc[0] = "drain_check" /\ pc'[0] = "idle") =>
            /\ is_openslide_loading_done
            /\ execCount[1] = 1
            /\ 1 \notin Unretired]_vars
    /\ [][is_openslide_loading_done =>
            /\ is_openslide_loading_done'
            /\ is_openslide_available' = is_openslide_available]_vars

\* no worker is enabled, none has taken a job, and thread 0 has run the
\* startup job inside its drain loop
C24_Witness ==
    /\ global_active_worker_thread_count = 0
    /\ \A w \in Workers : cur[w] = NoEntry /\ pc[w] = "check_enabled"
    /\ cur[0].callback = "load_openslide_task"
    /\ pc[0] = "retire"
    /\ is_openslide_loading_done

\* the message of the last entry of a queue
LastEntry(queue) == queue.entries[Len(queue.entries)]

\* C30: a decode job that succeeds puts exactly one message on the
\* completion queue, carrying its buffer and level; the threads execute
\* entries of the decode queue only, whose callbacks are the startup job and
\* load_tile_func, so a completion message is never executed or queued again.
C30_OneCompletionMessagePerDecode ==
    /\ [][\A t \in Threads :
            (outcome[t] = "none" /\ outcome'[t] = "decoded") =>
                /\ Len(global_completion_queue'.entries) =
                       Len(global_completion_queue.entries) + 1
                /\ LastEntry(global_completion_queue') =
                       CompletionTask(cur[t].id, cur[t].level)]_vars
    /\ [](\A t \in Threads :
            cur[t].callback \in {"none", "load_openslide_task", "load_tile_func"})

\* C31: a decoded buffer whose message the full completion queue rejects is
\* not lost: the job frees it, or the message reaches the queue after all.
\* Nothing but the rejected message points to the buffer, so the buffer has
\* to be off the heap, or its message in the queue, when the job returns.
C31_RejectedBufferNotLost ==
    [][\A t \in Threads :
          (outcome[t] = "none" /\ outcome'[t] = "decoded") =>
              \/ cur[t].id \notin live'
              \/ cur[t].id \in QueueBuffers(global_completion_queue')]_vars

\* C32: when OpenSlide fails to open the file (no handle, an error string,
\* or a level count of -1), load_wsi leaves wsi->osr NULL and
\* load_image_from_file returns, with the process running, an image that is
\* not valid and has level_count 0; an image is valid only if the handle is
\* open and its level table was built.
C32_FailedOpenIsInvalid ==
    /\ (osr.open_result \in OpenFailures /\ openPc # "load_wsi") =>
          /\ wsi.osr = NULL
          /\ procState = "running"
          /\ openPc \in {"map_levels", "open_failed"}
    /\ openPc = "open_failed" =>
          /\ osr.open_result \in OpenFailures
          /\ ~image.is_valid
          /\ image.level_count = 0
    /\ (image # <<>> /\ image.is_valid) =>
          /\ Opened
          /\ osr.open_result = "ok"
          /\ wsi.osr = OpenHandle
          /\ image.level_count >= 1
          /\ Len(image.level_images) = image.level_count

\* the open failed on the level count after a handle had been returned
C32_Witness ==
    /\ openPc = "open_failed"
    /\ osr.open_result = "level_count_error"
    /\ wsi.level_count = -1
    /\ wsi.osr = NULL
    /\ ~image.is_valid

\* C33: the origin passed to openslide_read_region for an in-grid tile is
\* (tile_x * tile_width * 2^level, tile_y * tile_height * 2^level) and the
\* 32-bit evaluation of (tile * tile_dim) << level does not overflow.
C33_RegionOriginDoesNotOverflow ==
    regionPc = "read" =>
        /\ ~region_task.overflow
        /\ region_task.x =
               region_task.tile_x * region_task.level_image.tile_width * 2^region_task.level
        /\ region_task.y =
               region_task.tile_y * region_task.level_image.tile_height * 2^region_task.level

====
